---- MODULE Spec2Model ----
(***************************************************************************)
(* Model of the pterodactyl API wrapper: setApiKey (index.js), the four    *)
(* request helpers (request.js) and the server/database functions          *)
(* (methods/servers/index.js).                                             *)
(*                                                                         *)
(* State: the stored credentials (process.env.ADMIN_HOST / ADMIN_KEY), the *)
(* most recent invocation of setApiKey (auth) and the most recent          *)
(* invocation of a server/database function (call).  An invocation that is *)
(* replaced in its slot goes on unobserved: its callbacks touch nothing    *)
(* but its own promise.                                                    *)
(***************************************************************************)
EXTENDS Integers, Sequences, FiniteSets

VARIABLES env, auth, call

vars == <<env, auth, call>>

(***************************************************************************)
(* Bounds                                                                  *)
(***************************************************************************)
\* greatest number of consecutive type checks of createServer that fail in
\* one call
MaxFaults == 2

(***************************************************************************)
(* JavaScript values that the arguments are drawn from                     *)
(***************************************************************************)
JSNumbers == {"num7", "num0", "num500", "numNeg1"}
JSStrings == {"strx", "str7", "strEmpty"}
JSBooleans == {"true", "false"}
JSArrays == {"arrEmpty", "arr1"}
\* besides these: "undefined", "null" and "obj" (a plain object)

\* typeof v
TypeOf(v) ==
  IF v \in JSNumbers THEN "number"
  ELSE IF v \in JSStrings THEN "string"
  ELSE IF v \in JSBooleans THEN "boolean"
  ELSE IF v = "undefined" THEN "undefined"
  ELSE "object"

\* Array.isArray(v)
IsArray(v) == v \in JSArrays

\* truthiness of v, as in !v and v ? a : b
Truthy(v) == v \notin {"num0", "strEmpty", "undefined", "null", "false"}

\* isNaN(v): Number(v) is NaN
IsNaN(v) == v \in {"strx", "undefined", "obj"}

\* v.length is a non-zero number (arrays and strings)
HasLength(v) == v \in {"arr1", "strx", "str7"}

\* String(v), the text that '...' + v appends
ToStr(v) ==
  CASE v = "num7" -> "7"
    [] v = "num0" -> "0"
    [] v = "num500" -> "500"
    [] v = "numNeg1" -> "-1"
    [] v = "strx" -> "x"
    [] v = "str7" -> "7"
    [] v = "strEmpty" -> ""
    [] v = "arrEmpty" -> ""
    [] v = "arr1" -> "1"
    [] v = "obj" -> "[object Object]"
    [] OTHER -> v

\* a string, given as the pieces it was concatenated from, is truthy unless ''
NonEmptyString(pieces) == \E i \in 1..Len(pieces) : pieces[i] # ""

\* a default parameter value: used when the argument is undefined
Default(v, d) == IF v = "undefined" THEN d ELSE v

(***************************************************************************)
(* Promises: values are records tagged by kind                             *)
(***************************************************************************)
Str(s) == [kind |-> "string", s |-> s]
TypeError == [kind |-> "TypeError"]
Undefined == [kind |-> "undefined"]

Pending == [state |-> "pending", value |-> Undefined]
Resolved(v) == [state |-> "resolved", value |-> v]
Rejected(v) == [state |-> "rejected", value |-> v]

\* a promise keeps only its first settlement (alternative: the last one)
SettleLast(p, outcome) == outcome

\* resolve(v) / reject(v) called on promise p: a no-op once p is settled
Settle(p, outcome) == IF p.state = "pending" THEN outcome ELSE p

(***************************************************************************)
(* The panel and axios                                                     *)
(***************************************************************************)
\* the (host, key) pairs setApiKey is called with; a host is given as the
\* pieces of its text, a trailing slash being a piece of its own
Accounts == {[host |-> <<"http://a", "/">>, key |-> "k1"],
             [host |-> <<"http://b">>, key |-> "k2"]}
Statuses == {200, 403, 404, 500}
\* response bodies: a well-formed JSON document, or the JSON document null
Bodies == {"json", "null"}

NoResponse == [kind |-> "none", status |-> 0, body |-> "none"]
Response(s, b) == [kind |-> "response", status |-> s, body |-> b]
NetworkError == [kind |-> "error", status |-> 0, body |-> "none"]

Responses == {Response(200, b) : b \in Bodies}
               \cup {Response(s, "json") : s \in Statuses \ {200}}

\* axios called without a validateStatus option: only 2xx fulfils the promise
ValidateStatus(status) == status >= 200 /\ status < 300

\* message of the error axios rejects with
ErrorMessage(resp) ==
  CASE resp.kind = "error" -> "connect ECONNREFUSED"
    [] resp.status = 403 -> "Request failed with status code 403"
    [] resp.status = 404 -> "Request failed with status code 404"
    [] resp.status = 500 -> "Request failed with status code 500"
    [] OTHER -> "Request failed"

\* err.status of the error axios rejects with: the response's status in the
\* axios versions that define AxiosError.status, undefined in the others
ErrorStatuses(resp) ==
  IF resp.kind = "response" THEN {resp.status, 0} ELSE {0}

\* the promise returned by axios.get/post/patch/delete, given what came back
AxiosOutcome(resp, errStatus) ==
  IF resp.kind = "response" /\ ValidateStatus(resp.status)
  THEN Resolved([kind |-> "response", status |-> resp.status, data |-> resp.body])
  ELSE Rejected([kind |-> "error", message |-> ErrorMessage(resp),
                 status |-> errStatus])

(***************************************************************************)
(* request.js                                                              *)
(***************************************************************************)
Msg404 == "404 Not found, check your host is correct"
Msg403 == "403 Forbidden, please check your API key is correct, or that you setup permissions correctly"
Msg500 == "500 Internal Server Error, check your server logs for the error"

EnvUnset == [host |-> <<"undefined">>, key |-> "undefined"]

\* the request a helper hands to axios: host + path, the headers, the data
HelperRequest(method, path, data, e) ==
  [method |-> method,
   url |-> e.host \o path,
   authorization |-> <<"Bearer ", e.key>>,
   data |-> data]

\* .then((response) => ...) of a helper
HelperThen(response) ==
  IF response.status = 404 THEN Rejected(Str(Msg404))
  ELSE IF response.status = 403 THEN Rejected(Str(Msg403))
  ELSE IF response.status = 500 THEN Rejected(Str(Msg500))
  ELSE Resolved([kind |-> "object", data |-> response.data])

\* .catch((error) => ...) of a helper (alternative: the request is sent again)
HelperCatchRetry(error) ==
  [settle |-> Rejected(Str(error.message)), resend |-> TRUE]

HelperCatch(error) ==
  [settle |-> Rejected(Str(error.message)), resend |-> FALSE]

\* the promise a helper returns and the requests it sends once axios settled
HelperOutcome(ax) ==
  IF ax.state = "resolved"
  THEN [settle |-> Settle(Pending, HelperThen(ax.value)), resend |-> FALSE]
  ELSE LET c == HelperCatch(ax.value)
       IN [settle |-> Settle(Pending, c.settle), resend |-> c.resend]

(***************************************************************************)
(* index.js: cleanHost and setApiKey                                       *)
(***************************************************************************)
\* host.replace(/\/$/, '')
cleanHost(host) ==
  IF Len(host) > 0 /\ host[Len(host)] = "/"
  THEN SubSeq(host, 1, Len(host) - 1)
  ELSE host

\* the credentials setApiKey stores (alternative: only when none are stored)
StoreCredentialsOnce(old, host, key) ==
  IF old = EnvUnset THEN [host |-> cleanHost(host), key |-> key] ELSE old

StoreCredentials(old, host, key) == [host |-> cleanHost(host), key |-> key]

\* the stored credentials once the callbacks of setApiKey ran: they write
\* nothing (alternative: a failed login clears them)
ClearOnFailedLogin(old, outcome) ==
  IF outcome.value.loggedIn THEN old ELSE EnvUnset

AfterVerification(old, outcome) == old

\* the verification request of setApiKey
VerifyRequest(host, key) ==
  [method |-> "GET",
   url |-> host \o <<"/api/application/users">>,
   authorization |-> <<"Bearer ", key>>,
   data |-> "none"]

LoginMsg404 == "404 Not found, please check you have provided a valid host."
LoginMsg403 == "403 Forbidden, please check your API key is valid"
LoginMsgOk == "Successfully authenticated"

LoginResult(flag, message) ==
  [kind |-> "object", loggedIn |-> flag, message |-> message]

\* res === 404, res being the response object
ResIs404(res) == res.kind = "number"

\* .then((res) => ...) of setApiKey
SetApiKeyThen(res) ==
  IF ResIs404(res)
  THEN Resolved(LoginResult(FALSE, LoginMsg404))
  ELSE Resolved(LoginResult(TRUE, LoginMsgOk))

\* .catch((err) => ...) of setApiKey
SetApiKeyCatch(err) ==
  IF err.status = 403
  THEN Resolved(LoginResult(FALSE, LoginMsg403))
  ELSE Resolved(LoginResult(FALSE, err.message))

SetApiKeyOutcome(ax) ==
  IF ax.state = "resolved" THEN SetApiKeyThen(ax.value)
  ELSE SetApiKeyCatch(ax.value)

(***************************************************************************)
(* methods/servers/index.js: validation                                    *)
(***************************************************************************)
Check(fails, msg) == [fails |-> fails, msg |-> msg]

MsgInternalId == "Internal ID must be a number"

\* the promise of an executor after its validation checks ran in order:
\* each failing check calls reject and execution goes on
RECURSIVE RunChecks(_, _)
RunChecks(p, checks) ==
  IF checks = <<>> THEN p
  ELSE RunChecks(IF Head(checks).fails
                 THEN Settle(p, Rejected(Str(Head(checks).msg)))
                 ELSE p,
                 Tail(checks))

getAllDatabasesChecks(a) == <<Check(IsNaN(a.internal_id), MsgInternalId)>>

getDatabaseChecks(a) ==
  <<Check(IsNaN(a.internal_id), MsgInternalId),
    Check(IsNaN(a.database_id), "Database ID must be a number")>>

createDatabaseChecks(a) ==
  <<Check(IsNaN(a.internal_id), MsgInternalId),
    Check(~Truthy(a.database) \/ TypeOf(a.database) # "string",
          "Database name must be a string"),
    Check(~Truthy(a.host) \/ TypeOf(a.host) # "number",
          "Database host must be a integer"),
    Check(~Truthy(a.remote) \/ TypeOf(a.remote) # "string",
          "Database remote connection rule must be a string")>>

\* the parameters of createServer, in the order of its signature; the
\* arguments of a call are the tuple of their values in this order
CreateServerParams ==
  <<"name", "description", "userID", "eggID", "startup", "dockerImage",
    "allocationID", "startOnComplete", "environment", "memory", "disk",
    "cpu", "swap", "io", "additionalAllocations", "databases", "allocations",
    "deploy", "skipScripts", "oomDisabled">>

\* the place of parameter p in the signature
ParamIndex(p) ==
  CASE p = "name" -> 1
    [] p = "description" -> 2
    [] p = "userID" -> 3
    [] p = "eggID" -> 4
    [] p = "startup" -> 5
    [] p = "dockerImage" -> 6
    [] p = "allocationID" -> 7
    [] p = "startOnComplete" -> 8
    [] p = "environment" -> 9
    [] p = "memory" -> 10
    [] p = "disk" -> 11
    [] p = "cpu" -> 12
    [] p = "swap" -> 13
    [] p = "io" -> 14
    [] p = "additionalAllocations" -> 15
    [] p = "databases" -> 16
    [] p = "allocations" -> 17
    [] p = "deploy" -> 18
    [] p = "skipScripts" -> 19
    [] p = "oomDisabled" -> 20

\* the default value of a parameter of createServer
CreateServerDefault(p) ==
  CASE p = "cpu" -> "num0"
    [] p = "swap" -> "numNeg1"
    [] p = "io" -> "num500"
    [] p = "additionalAllocations" -> "arrEmpty"
    [] p = "databases" -> "num0"
    [] p = "allocations" -> "num0"
    [] p = "deploy" -> "obj"
    [] p = "skipScripts" -> "false"
    [] p = "oomDisabled" -> "true"
    [] OTHER -> "undefined"

\* the value of a createServer parameter inside the function body
CreateServerParam(a, p) == Default(a[ParamIndex(p)], CreateServerDefault(p))

\* the type checks of createServer in source order: parameter, required
\* typeof (or "array" for Array.isArray), message
CreateServerTable ==
  <<<<"name", "string", "Error: Server name must be a string">>,
    <<"userID", "number", "Error: User ID must be a number">>,
    <<"eggID", "number", "Error: Egg ID must be a number">>,
    <<"startup", "string", "Error: Startup command must be a string">>,
    <<"memory", "number", "Error: Memory allocated must be a number">>,
    <<"disk", "number", "Error: Disk space must be a number">>,
    <<"dockerImage", "string", "Error: Docker image must be a string">>,
    <<"allocationID", "number", "Error: Allocation ID must be a number">>,
    <<"startOnComplete", "boolean",
      "Error: Start on complete setting must be a boolean">>,
    <<"additionalAllocations", "array",
      "Error: Additional allocations must be an array">>,
    <<"cpu", "number", "Error: CPU limit must be a number">>,
    <<"swap", "number", "Error: Swap space must be a number">>,
    <<"io", "number", "Error: Block IO proportion must be a number">>,
    <<"environment", "object",
      "Error: Environment variables must be in an Object">>,
    <<"databases", "number", "Error: Database allocations must be a number">>,
    <<"deploy", "object", "Error: Deployment settings must be in an Object">>,
    <<"skipScripts", "boolean",
      "Error: Skip scripts setting must be a boolean">>,
    <<"oomDisabled", "boolean",
      "Error: OOM Killer setting must be a boolean">>>>

createServerChecks(a) ==
  [i \in 1..Len(CreateServerTable) |->
     LET row == CreateServerTable[i]
         v == CreateServerParam(a, row[1])
     IN Check(IF row[2] = "array" THEN ~IsArray(v) ELSE TypeOf(v) # row[2],
              row[3])]

\* suspendServer, unsuspendServer, reinstallServer, rebuildServer, deleteServer
internalIdChecks(a) == <<Check(IsNaN(a.internal_id), MsgInternalId)>>

updateServerDetailsChecks(a) ==
  <<Check(IsNaN(a.internal_id), MsgInternalId),
    Check(~Truthy(a.name) \/ TypeOf(a.name) # "string",
          "You must supply a valid name"),
    Check(~Truthy(a.user) \/ TypeOf(a.user) # "number",
          "You must supply a valid user ID")>>

updateServerBuildConfigurationChecks(a) ==
  <<Check(IsNaN(a.internal_id), MsgInternalId),
    Check(~Truthy(a.allocation_id), "You must supply an allocation ID")>>

PostActions == {"suspendServer", "unsuspendServer", "reinstallServer",
                "rebuildServer"}

\* the validation checks of a server/database function, in source order
Checks(fn, a) ==
  CASE fn = "getAllDatabases" -> getAllDatabasesChecks(a)
    [] fn = "getDatabase" -> getDatabaseChecks(a)
    [] fn = "createDatabase" -> createDatabaseChecks(a)
    [] fn = "createServer" -> createServerChecks(a)
    [] fn \in PostActions \cup {"deleteServer"} -> internalIdChecks(a)
    [] fn = "updateServerDetails" -> updateServerDetailsChecks(a)
    [] fn = "updateServerBuildConfiguration" ->
         updateServerBuildConfigurationChecks(a)
    [] OTHER -> <<>>

(***************************************************************************)
(* methods/servers/index.js: the request of each function                  *)
(***************************************************************************)
ServersPath == "/api/application/servers"

\* '/api/application/servers/' + external ? 'external/' + id : id
\* + binds tighter than ?: so the condition is the concatenated string
getServerInformationPath(id, external) ==
  LET cond == <<ServersPath, "/", ToStr(external)>>
  IN IF NonEmptyString(cond) THEN <<"external/", ToStr(id)>> ELSE <<ToStr(id)>>

createServerData(a) ==
  LET v(p) == CreateServerParam(a, p)
  IN [name |-> v("name"),
      description |-> v("description"),
      startup |-> v("startup"),
      environment |-> v("environment"),
      deploy |-> v("deploy"),
      start_on_completion |-> v("startOnComplete"),
      user |-> v("userID"),
      egg |-> v("eggID"),
      limits |-> [memory |-> v("memory"), swap |-> v("swap"),
                  disk |-> v("disk"), io |-> v("io"), cpu |-> v("cpu")],
      feature_limits |-> [databases |-> v("databases"),
                          allocations |-> v("allocations")],
      docker_image |-> v("dockerImage"),
      allocation |-> [default |-> v("allocationID"),
                      additional |-> v("additionalAllocations")],
      skip_scripts |-> v("skipScripts"),
      oom_disabled |-> v("oomDisabled")]

\* a property that is set only under a condition
Optional(cond, v) == IF cond THEN v ELSE "absent"

updateServerDetailsData(a) ==
  [name |-> a.name,
   user |-> a.user,
   external_id |-> Optional(Truthy(a.external_id), a.external_id),
   description |-> Optional(Truthy(a.description)
                              /\ TypeOf(a.description) = "string",
                            a.description)]

\* filterObject({memory, disk, cpu, swap, io}, (val) => typeof val === 'number')
filterObject(a) ==
  [memory |-> Optional(TypeOf(a.memory) = "number", a.memory),
   disk |-> Optional(TypeOf(a.disk) = "number", a.disk),
   cpu |-> Optional(TypeOf(a.cpu) = "number", a.cpu),
   swap |-> Optional(TypeOf(a.swap) = "number", a.swap),
   io |-> Optional(TypeOf(a.io) = "number", a.io)]

updateServerBuildConfigurationData(a) ==
  [allocation_id |-> a.allocation_id,
   feature_limits |->
     (IF Truthy(a.database_limit) /\ TypeOf(a.database_limit) = "number"
      THEN <<a.database_limit>> ELSE <<>>)
     \o (IF Truthy(a.allocation_limit) /\ TypeOf(a.allocation_limit) = "number"
         THEN <<a.allocation_limit>> ELSE <<>>),
   limits |-> [present |-> Truthy(a.memory) \/ Truthy(a.disk) \/ Truthy(a.cpu)
                             \/ Truthy(a.swap) \/ Truthy(a.io),
               value |-> filterObject(a)],
   add_allocations |-> Optional(Truthy(a.add_allocations)
                                  /\ HasLength(a.add_allocations),
                                a.add_allocations),
   remove_allocations |-> Optional(Truthy(a.remove_allocations)
                                     /\ HasLength(a.remove_allocations),
                                   a.remove_allocations),
   oom_disabled |-> Optional(TypeOf(a.oom_disabled) = "boolean",
                             a.oom_disabled)]

NoData == [none |-> TRUE]

\* the helper call of each function: method, path and data
HelperCall(fn, a) ==
  CASE fn = "getAllServers" ->
         [method |-> "GET", path |-> <<ServersPath>>, data |-> NoData]
    [] fn = "getServerInformation" ->
         [method |-> "GET",
          path |-> getServerInformationPath(a.id, Default(a.external, "false")),
          data |-> NoData]
    [] fn = "getAllDatabases" ->
         [method |-> "GET",
          path |-> <<ServersPath, "/", ToStr(a.internal_id), "/databases">>,
          data |-> NoData]
    [] fn = "getDatabase" ->
         [method |-> "GET",
          path |-> <<ServersPath, "/", ToStr(a.internal_id), "/databases/",
                     ToStr(a.database_id)>>,
          data |-> NoData]
    [] fn = "createDatabase" ->
         [method |-> "POST",
          path |-> <<ServersPath, "/", ToStr(a.internal_id), "/databases">>,
          data |-> [database |-> a.database, remote |-> a.remote,
                    host |-> a.host]]
    [] fn = "createServer" ->
         [method |-> "POST", path |-> <<ServersPath>>,
          data |-> createServerData(a)]
    [] fn = "suspendServer" ->
         [method |-> "POST",
          path |-> <<ServersPath, "/", ToStr(a.internal_id), "/suspend">>,
          data |-> [empty |-> TRUE]]
    [] fn = "unsuspendServer" ->
         [method |-> "POST",
          path |-> <<ServersPath, "/", ToStr(a.internal_id), "/unsuspend">>,
          data |-> [empty |-> TRUE]]
    [] fn = "reinstallServer" ->
         [method |-> "POST",
          path |-> <<ServersPath, "/", ToStr(a.internal_id), "/reinstall">>,
          data |-> [empty |-> TRUE]]
    [] fn = "rebuildServer" ->
         [method |-> "POST",
          path |-> <<ServersPath, "/", ToStr(a.internal_id), "/rebuild">>,
          data |-> [empty |-> TRUE]]
    [] fn = "deleteServer" ->
         [method |-> "DELETE",
          path |-> <<ServersPath, "/", ToStr(a.internal_id)>>,
          data |-> NoData]
    [] fn = "updateServerDetails" ->
         [method |-> "PATCH",
          path |-> <<ServersPath, "/", ToStr(a.internal_id), "/details">>,
          data |-> updateServerDetailsData(a)]
    [] fn = "updateServerBuildConfiguration" ->
         [method |-> "PATCH",
          path |-> <<ServersPath, "/", ToStr(a.internal_id), "/build">>,
          data |-> updateServerBuildConfigurationData(a)]

(***************************************************************************)
(* methods/servers/index.js: the callbacks on the helper's promise         *)
(***************************************************************************)
\* what a callback did: threw, or called resolve/reject
Threw == [threw |-> TRUE, settle |-> Pending]
Called(outcome) == [threw |-> FALSE, settle |-> outcome]

Object(of) == [kind |-> "object", of |-> of]

SuccessMessage(fn) ==
  CASE fn = "suspendServer" -> "Successfully suspended the server"
    [] fn = "unsuspendServer" -> "Successfully unsuspended the server"
    [] fn = "reinstallServer" -> "Successfully started to reinstall the server"
    [] fn = "rebuildServer" -> "Successfully started to rebuild the server"
    [] fn = "deleteServer" -> "Successfully deleted the server"

\* .then((response) => ...): reading a property of response.data throws when
\* the body is null
WrapperThen(fn, response) ==
  IF fn \in PostActions \cup {"deleteServer"}
  THEN Called(Resolved(Str(SuccessMessage(fn))))
  ELSE IF response.data = "null" THEN Threw
  ELSE CASE fn = "getAllServers" -> Called(Resolved(Object("servers, pagination")))
         [] fn = "getAllDatabases" -> Called(Resolved(Object("databases")))
         [] fn \in {"getServerInformation", "getDatabase", "createDatabase"} ->
              Called(Resolved(Object("attributes")))
         [] OTHER -> Called(Resolved(Object("server: attributes")))

\* error.includes('403') on a string
Includes403(s) == s \in {Msg403, "Request failed with status code 403"}

MsgDatabase403 == "Request failed with status code 403\nPossible reasons: invalid API key, reached limit of databases for that server, not your server"

\* .catch((error) => ...): createDatabase calls error.includes, which only
\* strings have
WrapperCatch(fn, error) ==
  IF fn = "createDatabase"
  THEN IF error.kind # "string" THEN Threw
       ELSE IF Includes403(error.s) THEN Called(Rejected(Str(MsgDatabase403)))
       ELSE Called(Rejected(error))
  ELSE Called(Rejected(error))

\* helper(...).then(...).catch(...): the catch callback also gets what the
\* then callback threw
WrapperOutcome(fn, helper) ==
  IF helper.state = "resolved"
  THEN LET t == WrapperThen(fn, helper.value)
       IN IF t.threw THEN WrapperCatch(fn, TypeError) ELSE t
  ELSE WrapperCatch(fn, helper.value)

(***************************************************************************)
(* State                                                                   *)
(***************************************************************************)
NoRequest == [method |-> "none", url |-> <<>>, authorization |-> <<>>,
              data |-> NoData]

\* the arguments of the most recent setApiKey, none before the first one
NoCredentials == [set |-> FALSE, host |-> <<>>, key |-> ""]

NoAuth == [args |-> NoCredentials, pc |-> "idle", req |-> NoRequest,
           sent |-> 0, promise |-> Pending, resp |-> NoResponse]

NoCall == [fn |-> "none", args |-> [none |-> TRUE], pc |-> "idle",
           req |-> NoRequest, sent |-> 0, promise |-> Pending,
           helper |-> Pending, resp |-> NoResponse, given |-> NoCredentials]

Init ==
  /\ env = EnvUnset
  /\ auth = NoAuth
  /\ call = NoCall

(***************************************************************************)
(* Arguments                                                               *)
(***************************************************************************)
InternalIds == {"num7", "strx"}

\* an argument of createServer that passes its check; the parameters with a
\* default are left out
CreateServerValid(p) ==
  CASE p \in {"name", "description", "startup", "dockerImage"} -> "strx"
    [] p \in {"userID", "eggID", "allocationID", "memory", "disk"} -> "num7"
    [] p = "startOnComplete" -> "true"
    [] p = "environment" -> "obj"
    [] OTHER -> "undefined"

\* a value that fails the check of the given required type
WrongValue(type) ==
  CASE type = "string" -> "num7"
    [] type = "number" -> "str7"
    [] type = "boolean" -> "strx"
    [] type = "object" -> "strx"
    [] type = "array" -> "obj"

\* runs of at most n consecutive rows of CreateServerTable
FaultSets(n) ==
  {{}} \cup {{j \in i..(i + k - 1) : j <= Len(CreateServerTable)} :
              i \in 1..Len(CreateServerTable), k \in 1..n}

\* the argument for parameter p when the checks of the rows F are to fail
CreateServerArg(p, F) ==
  IF \E i \in F : CreateServerTable[i][1] = p
  THEN WrongValue(CreateServerTable[CHOOSE i \in F :
                                      CreateServerTable[i][1] = p][2])
  ELSE CreateServerValid(p)

CreateServerArgs(F) ==
  [i \in 1..Len(CreateServerParams) |-> CreateServerArg(CreateServerParams[i], F)]

(***************************************************************************)
(* Operations                                                              *)
(***************************************************************************)
\* setApiKey(host, key): stores the credentials, sends the verification
SetApiKey ==
  \E account \in Accounts :
    /\ env' = StoreCredentials(env, account.host, account.key)
    /\ auth' = [args |-> [set |-> TRUE, host |-> account.host,
                          key |-> account.key],
                pc |-> "inflight",
                req |-> VerifyRequest(account.host, account.key),
                sent |-> 1,
                promise |-> Pending,
                resp |-> NoResponse]
    /\ UNCHANGED call

\* the executor of a server/database function: the checks, then the helper
\* call, whatever the checks found
Invocation(fn, a) ==
  LET h == HelperCall(fn, a)
  IN [fn |-> fn, args |-> a, pc |-> "inflight",
      req |-> HelperRequest(h.method, h.path, h.data, env),
      sent |-> 1,
      promise |-> RunChecks(Pending, Checks(fn, a)),
      helper |-> Pending,
      resp |-> NoResponse,
      given |-> auth.args]

GetAllServers ==
  /\ call' = Invocation("getAllServers", [none |-> TRUE])
  /\ UNCHANGED <<env, auth>>

GetServerInformation ==
  /\ \E id \in InternalIds, external \in {"true", "false", "undefined"} :
       call' = Invocation("getServerInformation",
                          [id |-> id, external |-> external])
  /\ UNCHANGED <<env, auth>>

GetAllDatabases ==
  /\ \E id \in InternalIds :
       call' = Invocation("getAllDatabases", [internal_id |-> id])
  /\ UNCHANGED <<env, auth>>

GetDatabase ==
  /\ \E id \in InternalIds, db \in {"num7", "undefined"} :
       call' = Invocation("getDatabase",
                          [internal_id |-> id, database_id |-> db])
  /\ UNCHANGED <<env, auth>>

CreateDatabase ==
  /\ \E id \in InternalIds, db \in {"strx", "strEmpty"},
        host \in {"num7", "str7"}, remote \in {"strx", "undefined"} :
       call' = Invocation("createDatabase",
                          [internal_id |-> id, database |-> db,
                           host |-> host, remote |-> remote])
  /\ UNCHANGED <<env, auth>>

CreateServer ==
  /\ \E F \in FaultSets(MaxFaults) :
       call' = Invocation("createServer", CreateServerArgs(F))
  /\ UNCHANGED <<env, auth>>

SuspendServer ==
  /\ \E id \in InternalIds :
       call' = Invocation("suspendServer", [internal_id |-> id])
  /\ UNCHANGED <<env, auth>>

UnsuspendServer ==
  /\ \E id \in InternalIds :
       call' = Invocation("unsuspendServer", [internal_id |-> id])
  /\ UNCHANGED <<env, auth>>

ReinstallServer ==
  /\ \E id \in InternalIds :
       call' = Invocation("reinstallServer", [internal_id |-> id])
  /\ UNCHANGED <<env, auth>>

RebuildServer ==
  /\ \E id \in InternalIds :
       call' = Invocation("rebuildServer", [internal_id |-> id])
  /\ UNCHANGED <<env, auth>>

DeleteServer ==
  /\ \E id \in InternalIds :
       call' = Invocation("deleteServer", [internal_id |-> id])
  /\ UNCHANGED <<env, auth>>

UpdateServerDetails ==
  /\ \E id \in InternalIds, name \in {"strx", "num7"},
        user \in {"num7", "num0"}, external_id \in {"strx", "undefined"} :
       call' = Invocation("updateServerDetails",
                          [internal_id |-> id, name |-> name, user |-> user,
                           external_id |-> external_id,
                           description |-> external_id])
  /\ UNCHANGED <<env, auth>>

UpdateServerBuildConfiguration ==
  /\ \E id \in InternalIds, allocation_id \in {"num7", "undefined"},
        limit \in {"num7", "undefined"} :
       call' = Invocation("updateServerBuildConfiguration",
                          [internal_id |-> id, allocation_id |-> allocation_id,
                           database_limit |-> limit,
                           allocation_limit |-> "undefined",
                           memory |-> limit, disk |-> "undefined",
                           cpu |-> "num0", swap |-> "undefined",
                           io |-> "str7", add_allocations |-> "arr1",
                           remove_allocations |-> "undefined",
                           oom_disabled |-> "true"])
  /\ UNCHANGED <<env, auth>>

\* axios settles the request of the server/database call and the callbacks
\* of the helper and of the function run
Settled(resp) ==
  \E errStatus \in ErrorStatuses(resp) :
    LET h == HelperOutcome(AxiosOutcome(resp, errStatus))
        w == WrapperOutcome(call.fn, h.settle)
    IN call' = [call EXCEPT
                  !.pc = "done",
                  !.resp = resp,
                  !.helper = h.settle,
                  !.sent = IF h.resend THEN @ + 1 ELSE @,
                  !.promise = IF w.threw THEN @ ELSE Settle(@, w.settle)]

\* the panel answers the request of the server/database call
PanelResponds ==
  /\ call.pc = "inflight"
  /\ \E resp \in Responses : Settled(resp)
  /\ UNCHANGED <<env, auth>>

\* the request of the server/database call fails without a response
RequestFails ==
  /\ call.pc = "inflight"
  /\ Settled(NetworkError)
  /\ UNCHANGED <<env, auth>>

\* axios settles the verification request and the callbacks of setApiKey run
Verified(resp) ==
  \E errStatus \in ErrorStatuses(resp) :
    LET outcome == SetApiKeyOutcome(AxiosOutcome(resp, errStatus))
    IN /\ auth' = [auth EXCEPT !.pc = "done",
                                !.resp = resp,
                                !.promise = Settle(@, outcome)]
       /\ env' = AfterVerification(env, outcome)

\* the panel answers the verification request
VerifyResponds ==
  /\ auth.pc = "inflight"
  /\ \E resp \in Responses : Verified(resp)
  /\ UNCHANGED call

\* the verification request fails without a response
VerifyFails ==
  /\ auth.pc = "inflight"
  /\ Verified(NetworkError)
  /\ UNCHANGED call

Next ==
  \/ SetApiKey
  \/ GetAllServers
  \/ GetServerInformation
  \/ GetAllDatabases
  \/ GetDatabase
  \/ CreateDatabase
  \/ CreateServer
  \/ SuspendServer
  \/ UnsuspendServer
  \/ ReinstallServer
  \/ RebuildServer
  \/ DeleteServer
  \/ UpdateServerDetails
  \/ UpdateServerBuildConfiguration
  \/ PanelResponds
  \/ RequestFails
  \/ VerifyResponds
  \/ VerifyFails

Spec == Init /\ [][Next]_vars

(***************************************************************************)
(* Properties                                                              *)
(***************************************************************************)
Invoked == call.pc # "idle"
Done == call.pc = "done"

\* the checks of the observed call that fail, by their place in the source
Failing == {i \in 1..Len(Checks(call.fn, call.args)) :
              Checks(call.fn, call.args)[i].fails}

FirstFailing == CHOOSE i \in Failing : \A j \in Failing : i <= j

Is2xx(resp) == resp.kind = "response" /\ resp.status >= 200 /\ resp.status < 300

\* C1: a helper rejects with its own message on 404, 403 and 500, resolves
\* with {data: body} on any other status and rejects with the error's message
\* when the request fails without a response.
C1_HelperStatusMapping ==
  Done =>
    CASE call.resp.kind = "error" ->
           call.helper = Rejected(Str(ErrorMessage(call.resp)))
      [] call.resp.status = 404 -> call.helper = Rejected(Str(Msg404))
      [] call.resp.status = 403 -> call.helper = Rejected(Str(Msg403))
      [] call.resp.status = 500 -> call.helper = Rejected(Str(Msg500))
      [] OTHER -> call.helper = Resolved([kind |-> "object",
                                          data |-> call.resp.body])

\* C2: an invocation sends at most one HTTP request, exactly one when its
\* arguments pass validation (setApiKey validates nothing), and a failed
\* request is not sent again.
C2_OneRequest ==
  /\ auth.sent <= 1
  /\ call.sent <= 1
  /\ auth.pc # "idle" => auth.sent = 1
  /\ (Invoked /\ Failing = {}) => call.sent = 1

\* a call with valid arguments whose request failed, and one request was sent
C2_Witness ==
  /\ Done
  /\ Failing = {}
  /\ ~Is2xx(call.resp)
  /\ call.sent = 1
  /\ auth.pc = "done"
  /\ ~Is2xx(auth.resp)

\* C3: once the HTTP request of an invocation completed, its promise is
\* resolved or rejected, not left pending.
C3_SettledWhenDone ==
  /\ Done => call.promise.state # "pending"
  /\ auth.pc = "done" => auth.promise.state # "pending"

\* C4: a helper's request goes to <stored host> + path with Authorization
\* 'Bearer ' + <stored key>, the stored host and key being those of the most
\* recent setApiKey invoked before the call, whatever became of its
\* verification request.
C4_RequestUsesLatestCredentials ==
  (Invoked /\ call.given.set) =>
    /\ call.req.url = cleanHost(call.given.host)
                        \o HelperCall(call.fn, call.args).path
    /\ call.req.authorization = <<"Bearer ", call.given.key>>

\* a call made with the credentials of a setApiKey whose verification failed
C4_Witness ==
  /\ Invoked
  /\ call.given.set
  /\ call.given = auth.args
  /\ auth.pc = "done"
  /\ ~auth.promise.value.loggedIn
  /\ call.req.url[1] = "http://a"

\* the observed server/database call is invoked again with the same arguments
SameCallAgain ==
  /\ Invoked
  /\ call'.pc = "inflight"
  /\ call'.fn = call.fn
  /\ call'.args = call.args

ExpectedOutcome(fn, a, resp) ==
  IF \E i \in 1..Len(Checks(fn, a)) : Checks(fn, a)[i].fails
  THEN LET i == CHOOSE i \in 1..Len(Checks(fn, a)) :
                  /\ Checks(fn, a)[i].fails
                  /\ \A j \in 1..(i - 1) : ~Checks(fn, a)[j].fails
       IN Rejected(Str(Checks(fn, a)[i].msg))
  ELSE IF ~Is2xx(resp)
  THEN IF fn = "createDatabase" /\ resp.kind = "response" /\ resp.status = 403
       THEN Rejected(Str(MsgDatabase403))
       ELSE Rejected(Str(ErrorMessage(resp)))
  ELSE IF fn \in PostActions \cup {"deleteServer"}
  THEN Resolved(Str(SuccessMessage(fn)))
  ELSE IF resp.body = "null"
  THEN IF fn = "createDatabase" THEN Pending ELSE Rejected(TypeError)
  ELSE CASE fn = "getAllServers" -> Resolved(Object("servers, pagination"))
         [] fn = "getAllDatabases" -> Resolved(Object("databases"))
         [] fn \in {"getServerInformation", "getDatabase", "createDatabase"} ->
              Resolved(Object("attributes"))
         [] OTHER -> Resolved(Object("server: attributes"))

C6_LoginResult ==
  auth.pc = "done" =>
    /\ auth.promise.state = "resolved"
    /\ auth.promise.value =
         CASE Is2xx(auth.resp) -> LoginResult(TRUE, LoginMsgOk)
           [] auth.resp.kind = "response" /\ auth.resp.status = 404 ->
                LoginResult(FALSE, LoginMsg404)
           [] auth.resp.kind = "response" /\ auth.resp.status = 403 ->
                LoginResult(FALSE, LoginMsg403)
           [] OTHER -> LoginResult(FALSE, ErrorMessage(auth.resp))

\* C7: getServerInformation sends its GET to '/api/application/servers/' + id,
\* or to '/api/application/servers/external/' + id when external is true.
C7_ServerInformationPath ==
  (Invoked /\ call.fn = "getServerInformation") =>
    \E host \in {EnvUnset.host} \cup {cleanHost(a.host) : a \in Accounts} :
      call.req.url =
        host \o (IF Default(call.args.external, "false") = "true"
                 THEN <<ServersPath, "/", "external/", ToStr(call.args.id)>>
                 ELSE <<ServersPath, "/", ToStr(call.args.id)>>)

\* C8: when a validation check of a server/database function fails, no HTTP
\* request is sent for that invocation.
C8_NoRequestWhenInvalid ==
  (Invoked /\ Failing # {}) => call.sent = 0

\* C9: when validation checks fail the promise is rejected with the message
\* of the first failing check in source order, and neither a later failing
\* check nor the result of the HTTP request changes that.
C9_FirstFailingCheckWins ==
  (Invoked /\ Failing # {}) =>
    call.promise = Rejected(Str(Checks(call.fn, call.args)[FirstFailing].msg))

\* a call with two failing checks whose request then succeeded
C9_Witness ==
  /\ Done
  /\ Cardinality(Failing) >= 2
  /\ Is2xx(call.resp)
  /\ call.resp.body = "json"
  /\ call.promise.state = "rejected"

====
